---- MODULE Spec2Model ----
(***************************************************************************)
(* Model of package pool (src/pool.go): a Pool of io.Closer resources kept *)
(* in a buffered channel, a factory, and a closed flag under a mutex.      *)
(* Workers are goroutines calling Acquire, Release and Close.  Every       *)
(* channel operation, mutex operation and flag access is one step.         *)
(***************************************************************************)
EXTENDS Integers, Sequences, FiniteSets, TLC

\* ------------------------------------------------------------- bounds
NumWorkers == 2
MaxCap == 2
MaxAcquires == 3

Workers == 1..NumWorkers
Res == 1..MaxAcquires
NoWorker == 0

VARIABLES
    size,          \* the size passed to New
    newRet,        \* New's outcome: "pending" before the call, then "ok" or "err"
    capacity,      \* cap(p.resources), the size given to New
    resources,     \* p.resources: the channel's buffer, oldest first
    chClosed,      \* close(p.resources) has run
    closed,        \* p.closed
    m,             \* p.m: the worker holding the mutex, or NoWorker
    pc,            \* where each worker stands
    arg,           \* the resource a worker passed to Release (0: none)
    held,          \* the resources each caller owns
    created,       \* resources the factory has made so far (ids 1..created)
    closeCount,    \* how often the Pool called r.Close() on each resource
    ret,           \* outcome of a worker's latest Acquire
    acquireCalls,  \* Acquire calls so far
    factoryCalls,  \* p.factory() invocations so far
    emptyAcquires, \* Acquire calls made while the buffer was empty
    callEmpty,     \* was the buffer empty when the worker called Acquire
    afterClose,    \* did the worker's Acquire begin after a Close had returned
    closeReturned, \* some Close call has returned
    markCount,     \* how often a Close performed the mark-closed-and-drain transition
    marking,       \* the worker's current Close call is the transitioning one
    snap,          \* the buffer's contents when the worker called Close
    closeDone,     \* the worker's latest Close call has returned
    relOrder       \* buffered resources in the order of their Release

vars == <<size, newRet, capacity, resources, chClosed, closed, m, pc, arg, held, created,
          closeCount, ret, acquireCalls, factoryCalls, emptyAcquires, callEmpty,
          afterClose, closeReturned, markCount, marking, snap, closeDone, relOrder>>

newVars == <<size, newRet>>
poolVars == <<capacity, resources, chClosed, closed, m>>
acqGhost == <<ret, acquireCalls, factoryCalls, emptyAcquires, callEmpty, afterClose>>
closeGhost == <<closeReturned, markCount, marking, snap, closeDone>>

\* ------------------------------------------------------------ helpers
Range(s) == {s[i] : i \in 1..Len(s)}

RemoveFirst(s, x) ==
    LET i == CHOOSE j \in 1..Len(s) : s[j] = x /\ \A k \in 1..(j-1) : s[k] # x
    IN  SubSeq(s, 1, i-1) \o SubSeq(s, i+1, Len(s))

\* r.Close() called by the Pool
CloseResource(r) == [closeCount EXCEPT ![r] = @ + 1]

\* what is remembered of a worker's latest Acquire and Close is forgotten when
\* the worker makes its next call
ForgetAcquire(w) ==
    /\ ret' = [ret EXCEPT ![w] = "none"]
    /\ callEmpty' = [callEmpty EXCEPT ![w] = FALSE]
    /\ afterClose' = [afterClose EXCEPT ![w] = FALSE]

ForgetClose(w) ==
    /\ snap' = [snap EXCEPT ![w] = {}]
    /\ closeDone' = [closeDone EXCEPT ![w] = FALSE]

\* New without the test of size
NewUnchecked(s) ==
    [err |-> FALSE,
     pool |-> [capacity |-> s, resources |-> <<>>, chClosed |-> FALSE,
               closed |-> FALSE, m |-> NoWorker]]

\* New(fn, size): an error and no Pool when size <= 0 (size is a uint), else a
\* Pool with an empty channel of capacity size, closed false, mutex unlocked
New(s) ==
    IF s <= 0
    THEN [err |-> TRUE]
    ELSE [err |-> FALSE,
          pool |-> [capacity |-> s, resources |-> <<>>, chClosed |-> FALSE,
                    closed |-> FALSE, m |-> NoWorker]]

\* no Pool: what the Pool's variables read before New and after a failed New
NoPool ==
    [capacity |-> 0, resources |-> <<>>, chClosed |-> FALSE, closed |-> FALSE,
     m |-> NoWorker]

PoolIs(p) ==
    /\ capacity = p.capacity
    /\ resources = p.resources
    /\ chClosed = p.chClosed
    /\ closed = p.closed
    /\ m = p.m

\* the workers before their first call
Fresh ==
    /\ pc = [w \in Workers |-> "idle"]
    /\ arg = [w \in Workers |-> 0]
    /\ held = [w \in Workers |-> {}]
    /\ created = 0
    /\ closeCount = [r \in Res |-> 0]
    /\ ret = [w \in Workers |-> "none"]
    /\ acquireCalls = 0
    /\ factoryCalls = 0
    /\ emptyAcquires = 0
    /\ callEmpty = [w \in Workers |-> FALSE]
    /\ afterClose = [w \in Workers |-> FALSE]
    /\ closeReturned = FALSE
    /\ markCount = 0
    /\ marking = [w \in Workers |-> FALSE]
    /\ snap = [w \in Workers |-> {}]
    /\ closeDone = [w \in Workers |-> FALSE]
    /\ relOrder = <<>>

\* the state after a successful New(fn, size)
Init ==
    /\ size \in 1..MaxCap
    /\ newRet = "ok"
    /\ ~New(size).err
    /\ PoolIs(New(size).pool)
    /\ Fresh

\* the state before New is called, with any size a uint can take up to MaxCap
NewInit ==
    /\ size \in 0..MaxCap
    /\ newRet = "pending"
    /\ PoolIs(NoPool)
    /\ Fresh

\* p, err := New(fn, size)
NewCall ==
    /\ newRet = "pending"
    /\ IF New(size).err
       THEN /\ newRet' = "err"
            /\ UNCHANGED poolVars
       ELSE /\ newRet' = "ok"
            /\ capacity' = New(size).pool.capacity
            /\ resources' = New(size).pool.resources
            /\ chClosed' = New(size).pool.chClosed
            /\ closed' = New(size).pool.closed
            /\ m' = New(size).pool.m
    /\ UNCHANGED <<size, pc, arg, held, created, closeCount, acqGhost, closeGhost,
                   relOrder>>

\* ------------------------------------------------------------ Acquire
\* a worker calls p.Acquire()
AcquireCall(w) ==
    /\ pc[w] = "idle"
    /\ acquireCalls < MaxAcquires
    /\ pc' = [pc EXCEPT ![w] = "acq_select"]
    /\ acquireCalls' = acquireCalls + 1
    /\ callEmpty' = [callEmpty EXCEPT ![w] = (resources = <<>>)]
    /\ emptyAcquires' = IF resources = <<>> THEN emptyAcquires + 1 ELSE emptyAcquires
    /\ afterClose' = [afterClose EXCEPT ![w] = closeReturned]
    /\ ret' = [ret EXCEPT ![w] = "pending"]
    /\ ForgetClose(w)
    /\ UNCHANGED <<newVars, poolVars, arg, held, created, closeCount, factoryCalls,
                   closeReturned, markCount, marking, relOrder>>

\* an Acquire that receives the newest buffered resource instead of the oldest
AcquireSelectNewest(w) ==
    /\ pc[w] = "acq_select"
    /\ IF resources # <<>>
       THEN /\ held' = [held EXCEPT ![w] = @ \cup {resources[Len(resources)]}]
            /\ resources' = SubSeq(resources, 1, Len(resources) - 1)
            /\ relOrder' = RemoveFirst(relOrder, resources[Len(resources)])
            /\ ret' = [ret EXCEPT ![w] = "buffered"]
            /\ pc' = [pc EXCEPT ![w] = "idle"]
       ELSE IF chClosed
       THEN /\ ret' = [ret EXCEPT ![w] = "ErrPoolClosed"]
            /\ pc' = [pc EXCEPT ![w] = "idle"]
            /\ UNCHANGED <<held, resources, relOrder>>
       ELSE /\ pc' = [pc EXCEPT ![w] = "acq_factory"]
            /\ UNCHANGED <<held, resources, relOrder, ret>>
    /\ UNCHANGED <<newVars, capacity, chClosed, closed, m, arg, created, closeCount,
                   acquireCalls, factoryCalls, emptyAcquires, callEmpty, afterClose,
                   closeGhost>>

\* an Acquire that goes to the factory without looking at an open buffer
AcquireSelectSkipsBuffer(w) ==
    /\ pc[w] = "acq_select"
    /\ IF chClosed /\ resources = <<>>
       THEN /\ ret' = [ret EXCEPT ![w] = "ErrPoolClosed"]
            /\ pc' = [pc EXCEPT ![w] = "idle"]
       ELSE /\ pc' = [pc EXCEPT ![w] = "acq_factory"]
            /\ UNCHANGED ret
    /\ UNCHANGED <<held, resources, relOrder>>
    /\ UNCHANGED <<newVars, capacity, chClosed, closed, m, arg, created, closeCount,
                   acquireCalls, factoryCalls, emptyAcquires, callEmpty, afterClose,
                   closeGhost>>

\* an Acquire for which a closed, drained channel is as an empty one: default runs
AcquireSelectClosedNotReady(w) ==
    /\ pc[w] = "acq_select"
    /\ IF resources # <<>>
       THEN /\ held' = [held EXCEPT ![w] = @ \cup {Head(resources)}]
            /\ resources' = Tail(resources)
            /\ relOrder' = RemoveFirst(relOrder, Head(resources))
            /\ ret' = [ret EXCEPT ![w] = "buffered"]
            /\ pc' = [pc EXCEPT ![w] = "idle"]
       ELSE /\ pc' = [pc EXCEPT ![w] = "acq_factory"]
            /\ UNCHANGED <<held, resources, relOrder, ret>>
    /\ UNCHANGED <<newVars, capacity, chClosed, closed, m, arg, created, closeCount,
                   acquireCalls, factoryCalls, emptyAcquires, callEmpty, afterClose,
                   closeGhost>>

\* an Acquire that takes an empty open channel for a closed one
AcquireSelectEmptyIsClosed(w) ==
    /\ pc[w] = "acq_select"
    /\ IF resources # <<>>
       THEN /\ held' = [held EXCEPT ![w] = @ \cup {Head(resources)}]
            /\ resources' = Tail(resources)
            /\ relOrder' = RemoveFirst(relOrder, Head(resources))
            /\ ret' = [ret EXCEPT ![w] = "buffered"]
       ELSE /\ ret' = [ret EXCEPT ![w] = "ErrPoolClosed"]
            /\ UNCHANGED <<held, resources, relOrder>>
    /\ pc' = [pc EXCEPT ![w] = "idle"]
    /\ UNCHANGED <<newVars, capacity, chClosed, closed, m, arg, created, closeCount,
                   acquireCalls, factoryCalls, emptyAcquires, callEmpty, afterClose,
                   closeGhost>>

\* an Acquire with a plain receive, no default: it waits on an empty open channel
AcquireSelectBlocking(w) ==
    /\ pc[w] = "acq_select"
    /\ resources # <<>> \/ chClosed
    /\ IF resources # <<>>
       THEN /\ held' = [held EXCEPT ![w] = @ \cup {Head(resources)}]
            /\ resources' = Tail(resources)
            /\ relOrder' = RemoveFirst(relOrder, Head(resources))
            /\ ret' = [ret EXCEPT ![w] = "buffered"]
       ELSE /\ ret' = [ret EXCEPT ![w] = "ErrPoolClosed"]
            /\ UNCHANGED <<held, resources, relOrder>>
    /\ pc' = [pc EXCEPT ![w] = "idle"]
    /\ UNCHANGED <<newVars, capacity, chClosed, closed, m, arg, created, closeCount,
                   acquireCalls, factoryCalls, emptyAcquires, callEmpty, afterClose,
                   closeGhost>>

\* an Acquire that returns the oldest buffered resource and leaves it buffered
AcquireSelectPeeks(w) ==
    /\ pc[w] = "acq_select"
    /\ IF resources # <<>>
       THEN /\ held' = [held EXCEPT ![w] = @ \cup {Head(resources)}]
            /\ ret' = [ret EXCEPT ![w] = "buffered"]
            /\ pc' = [pc EXCEPT ![w] = "idle"]
            /\ UNCHANGED <<resources, relOrder>>
       ELSE IF chClosed
       THEN /\ ret' = [ret EXCEPT ![w] = "ErrPoolClosed"]
            /\ pc' = [pc EXCEPT ![w] = "idle"]
            /\ UNCHANGED <<held, resources, relOrder>>
       ELSE /\ pc' = [pc EXCEPT ![w] = "acq_factory"]
            /\ UNCHANGED <<held, resources, relOrder, ret>>
    /\ UNCHANGED <<newVars, capacity, chClosed, closed, m, arg, created, closeCount,
                   acquireCalls, factoryCalls, emptyAcquires, callEmpty, afterClose,
                   closeGhost>>

\* select { case r, ok := <-p.resources: ... default: ... }
AcquireSelect(w) ==
    /\ pc[w] = "acq_select"
    /\ IF resources # <<>>
       THEN \* a buffered value is received, from an open or a closed channel
            /\ held' = [held EXCEPT ![w] = @ \cup {Head(resources)}]
            /\ resources' = Tail(resources)
            /\ relOrder' = RemoveFirst(relOrder, Head(resources))
            /\ ret' = [ret EXCEPT ![w] = "buffered"]
            /\ pc' = [pc EXCEPT ![w] = "idle"]
       ELSE IF chClosed
       THEN \* closed and drained: the receive yields ok = false
            /\ ret' = [ret EXCEPT ![w] = "ErrPoolClosed"]
            /\ pc' = [pc EXCEPT ![w] = "idle"]
            /\ UNCHANGED <<held, resources, relOrder>>
       ELSE \* open and empty: the receive is not ready, default runs
            /\ pc' = [pc EXCEPT ![w] = "acq_factory"]
            /\ UNCHANGED <<held, resources, relOrder, ret>>
    /\ UNCHANGED <<newVars, capacity, chClosed, closed, m, arg, created, closeCount,
                   acquireCalls, factoryCalls, emptyAcquires, callEmpty, afterClose,
                   closeGhost>>

\* resources the factory has made and the Pool has not closed
Alive == {r \in 1..created : closeCount[r] = 0}

\* an Acquire that refuses to create while capacity resources are alive
AcquireFactoryCapped(w) ==
    /\ pc[w] = "acq_factory"
    /\ factoryCalls' = factoryCalls + 1
    /\ \E ok \in BOOLEAN :
         IF ok /\ Cardinality(Alive) < capacity
         THEN /\ created' = created + 1
              /\ held' = [held EXCEPT ![w] = @ \cup {created + 1}]
              /\ ret' = [ret EXCEPT ![w] = "created"]
         ELSE /\ ret' = [ret EXCEPT ![w] = "factoryErr"]
              /\ UNCHANGED <<created, held>>
    /\ pc' = [pc EXCEPT ![w] = "idle"]
    /\ UNCHANGED <<newVars, poolVars, arg, closeCount, acquireCalls, emptyAcquires,
                   callEmpty, afterClose, closeGhost, relOrder>>

\* an Acquire that calls the factory a second time when it fails, and wraps
\* the error of the second failure
AcquireFactoryRetries(w) ==
    /\ pc[w] = "acq_factory"
    /\ \E ok \in BOOLEAN :
         IF ok
         THEN /\ factoryCalls' = factoryCalls + 1
              /\ created' = created + 1
              /\ held' = [held EXCEPT ![w] = @ \cup {created + 1}]
              /\ ret' = [ret EXCEPT ![w] = "created"]
         ELSE /\ factoryCalls' = factoryCalls + 2
              /\ ret' = [ret EXCEPT ![w] = "wrappedErr"]
              /\ UNCHANGED <<created, held>>
    /\ pc' = [pc EXCEPT ![w] = "idle"]
    /\ UNCHANGED <<newVars, poolVars, arg, closeCount, acquireCalls, emptyAcquires,
                   callEmpty, afterClose, closeGhost, relOrder>>

\* return p.factory(): a new resource, or the factory's error
AcquireFactory(w) ==
    /\ pc[w] = "acq_factory"
    /\ factoryCalls' = factoryCalls + 1
    /\ \E ok \in BOOLEAN :
         IF ok
         THEN /\ created' = created + 1
              /\ held' = [held EXCEPT ![w] = @ \cup {created + 1}]
              /\ ret' = [ret EXCEPT ![w] = "created"]
         ELSE /\ ret' = [ret EXCEPT ![w] = "factoryErr"]
              /\ UNCHANGED <<created, held>>
    /\ pc' = [pc EXCEPT ![w] = "idle"]
    /\ UNCHANGED <<newVars, poolVars, arg, closeCount, acquireCalls, emptyAcquires,
                   callEmpty, afterClose, closeGhost, relOrder>>

\* ------------------------------------------------------------ Release
\* a worker calls p.Release(r) with a resource it holds
ReleaseCall(w) ==
    /\ pc[w] = "idle"
    /\ \E r \in held[w] :
         /\ arg' = [arg EXCEPT ![w] = r]
         /\ held' = [held EXCEPT ![w] = @ \ {r}]
    /\ pc' = [pc EXCEPT ![w] = "rel_lock"]
    /\ ForgetAcquire(w)
    /\ ForgetClose(w)
    /\ UNCHANGED <<newVars, poolVars, created, closeCount, acquireCalls, factoryCalls,
                   emptyAcquires, closeReturned, markCount, marking, relOrder>>

\* p.m.Lock()
ReleaseLock(w) ==
    /\ pc[w] = "rel_lock"
    /\ m = NoWorker
    /\ m' = w
    /\ pc' = [pc EXCEPT ![w] = "rel_check"]
    /\ UNCHANGED <<newVars, capacity, resources, chClosed, closed, arg, held, created,
                   closeCount, acqGhost, closeGhost, relOrder>>

\* Release without the test of p.closed
ReleaseCheckIgnoresClosed(w) ==
    /\ pc[w] = "rel_check"
    /\ pc' = [pc EXCEPT ![w] = "rel_select"]
    /\ UNCHANGED <<newVars, poolVars, arg, held, created, closeCount, acqGhost, closeGhost,
                   relOrder>>

\* if p.closed { r.Close(); return }
ReleaseCheck(w) ==
    /\ pc[w] = "rel_check"
    /\ IF closed
       THEN /\ closeCount' = CloseResource(arg[w])
            /\ arg' = [arg EXCEPT ![w] = 0]
            /\ pc' = [pc EXCEPT ![w] = "rel_unlock"]
       ELSE /\ pc' = [pc EXCEPT ![w] = "rel_select"]
            /\ UNCHANGED <<closeCount, arg>>
    /\ UNCHANGED <<newVars, poolVars, held, created, acqGhost, closeGhost, relOrder>>

\* Release with a send that does not respect the channel's capacity
ReleaseSelectUnbounded(w) ==
    /\ pc[w] = "rel_select"
    /\ ~chClosed
    /\ resources' = Append(resources, arg[w])
    /\ relOrder' = Append(relOrder, arg[w])
    /\ arg' = [arg EXCEPT ![w] = 0]
    /\ pc' = [pc EXCEPT ![w] = "rel_unlock"]
    /\ UNCHANGED <<newVars, capacity, chClosed, closed, m, held, created, closeCount,
                   acqGhost, closeGhost>>

\* Release that drops the resource of a full buffer without closing it
ReleaseSelectLeaks(w) ==
    /\ pc[w] = "rel_select"
    /\ ~chClosed
    /\ IF Len(resources) < capacity
       THEN /\ resources' = Append(resources, arg[w])
            /\ relOrder' = Append(relOrder, arg[w])
       ELSE UNCHANGED <<resources, relOrder>>
    /\ arg' = [arg EXCEPT ![w] = 0]
    /\ pc' = [pc EXCEPT ![w] = "rel_unlock"]
    /\ UNCHANGED <<newVars, capacity, chClosed, closed, m, held, created, closeCount,
                   acqGhost, closeGhost>>

\* select { case p.resources <- r: ... default: r.Close() }
ReleaseSelect(w) ==
    /\ pc[w] = "rel_select"
    /\ IF chClosed
       THEN \* a send on a closed channel panics: the deferred Unlock runs and
            \* the unrecovered panic ends the program
            /\ pc' = [v \in Workers |-> "panic"]
            /\ m' = NoWorker
            /\ UNCHANGED <<resources, relOrder, closeCount, arg>>
       ELSE IF Len(resources) < capacity
       THEN /\ resources' = Append(resources, arg[w])
            /\ relOrder' = Append(relOrder, arg[w])
            /\ arg' = [arg EXCEPT ![w] = 0]
            /\ pc' = [pc EXCEPT ![w] = "rel_unlock"]
            /\ UNCHANGED <<closeCount, m>>
       ELSE /\ closeCount' = CloseResource(arg[w])
            /\ arg' = [arg EXCEPT ![w] = 0]
            /\ pc' = [pc EXCEPT ![w] = "rel_unlock"]
            /\ UNCHANGED <<resources, relOrder, m>>
    /\ UNCHANGED <<newVars, capacity, chClosed, closed, held, created, acqGhost, closeGhost>>

\* the deferred p.m.Unlock(); Release returns
ReleaseUnlock(w) ==
    /\ pc[w] = "rel_unlock"
    /\ m' = NoWorker
    /\ pc' = [pc EXCEPT ![w] = "idle"]
    /\ UNCHANGED <<newVars, capacity, resources, chClosed, closed, arg, held, created,
                   closeCount, acqGhost, closeGhost, relOrder>>

\* -------------------------------------------------------------- Close
\* a worker calls p.Close()
CloseCall(w) ==
    /\ pc[w] = "idle"
    /\ pc' = [pc EXCEPT ![w] = "cl_lock"]
    /\ snap' = [snap EXCEPT ![w] = Range(resources)]
    /\ closeDone' = [closeDone EXCEPT ![w] = FALSE]
    /\ ForgetAcquire(w)
    /\ UNCHANGED <<newVars, poolVars, arg, held, created, closeCount, acquireCalls,
                   factoryCalls, emptyAcquires, closeReturned, markCount, marking,
                   relOrder>>

\* p.m.Lock()
CloseLock(w) ==
    /\ pc[w] = "cl_lock"
    /\ m = NoWorker
    /\ m' = w
    /\ pc' = [pc EXCEPT ![w] = "cl_check"]
    /\ UNCHANGED <<newVars, capacity, resources, chClosed, closed, arg, held, created,
                   closeCount, acqGhost, closeGhost, relOrder>>

\* Close without the test of p.closed
CloseCheckIgnoresClosed(w) ==
    /\ pc[w] = "cl_check"
    /\ closed' = TRUE
    /\ markCount' = markCount + 1
    /\ marking' = [marking EXCEPT ![w] = TRUE]
    /\ pc' = [pc EXCEPT ![w] = "cl_chan"]
    /\ UNCHANGED <<newVars, capacity, resources, chClosed, m, arg, held, created, closeCount,
                   acqGhost, closeReturned, snap, closeDone, relOrder>>

\* a Close that flips p.closed instead of setting it
CloseCheckToggles(w) ==
    /\ pc[w] = "cl_check"
    /\ closed' = ~closed
    /\ IF closed
       THEN /\ pc' = [pc EXCEPT ![w] = "cl_unlock"]
            /\ UNCHANGED <<markCount, marking>>
       ELSE /\ markCount' = markCount + 1
            /\ marking' = [marking EXCEPT ![w] = TRUE]
            /\ pc' = [pc EXCEPT ![w] = "cl_chan"]
    /\ UNCHANGED <<newVars, capacity, resources, chClosed, m, arg, held, created, closeCount,
                   acqGhost, closeReturned, snap, closeDone, relOrder>>

\* if p.closed { return }; p.closed = true
CloseCheck(w) ==
    /\ pc[w] = "cl_check"
    /\ IF closed
       THEN /\ pc' = [pc EXCEPT ![w] = "cl_unlock"]
            /\ UNCHANGED <<closed, markCount, marking>>
       ELSE /\ closed' = TRUE
            /\ markCount' = markCount + 1
            /\ marking' = [marking EXCEPT ![w] = TRUE]
            /\ pc' = [pc EXCEPT ![w] = "cl_chan"]
    /\ UNCHANGED <<newVars, capacity, resources, chClosed, m, arg, held, created, closeCount,
                   acqGhost, closeReturned, snap, closeDone, relOrder>>

\* a Close that goes on to drain without closing the channel
CloseChanSkipped(w) ==
    /\ pc[w] = "cl_chan"
    /\ pc' = [pc EXCEPT ![w] = "cl_drain"]
    /\ UNCHANGED <<newVars, poolVars, arg, held, created, closeCount, acqGhost,
                   closeGhost, relOrder>>

\* close(p.resources)
CloseChan(w) ==
    /\ pc[w] = "cl_chan"
    /\ chClosed' = TRUE
    /\ pc' = [pc EXCEPT ![w] = "cl_drain"]
    /\ UNCHANGED <<newVars, capacity, resources, closed, m, arg, held, created, closeCount,
                   acqGhost, closeGhost, relOrder>>

\* a drain that closes the oldest buffered resource without receiving it
CloseDrainNoReceive(w) ==
    /\ pc[w] = "cl_drain"
    /\ IF resources # <<>>
       THEN /\ closeCount' = CloseResource(Head(resources))
            /\ UNCHANGED <<pc, relOrder, resources>>
       ELSE /\ pc' = [pc EXCEPT ![w] = "cl_unlock"]
            /\ UNCHANGED <<closeCount, relOrder, resources>>
    /\ UNCHANGED <<newVars, capacity, chClosed, closed, m, arg, held, created, acqGhost,
                   closeGhost>>

\* a Close that leaves the buffer as it is
CloseDrainNothing(w) ==
    /\ pc[w] = "cl_drain"
    /\ pc' = [pc EXCEPT ![w] = "cl_unlock"]
    /\ UNCHANGED <<newVars, poolVars, arg, held, created, closeCount, acqGhost, closeGhost,
                   relOrder>>

\* for r := range p.resources { r.Close() }
CloseDrain(w) ==
    /\ pc[w] = "cl_drain"
    /\ IF resources # <<>>
       THEN /\ closeCount' = CloseResource(Head(resources))
            /\ relOrder' = RemoveFirst(relOrder, Head(resources))
            /\ resources' = Tail(resources)
            /\ UNCHANGED pc
       ELSE \* closed and empty: the range loop ends (open and empty: it waits)
            /\ chClosed
            /\ pc' = [pc EXCEPT ![w] = "cl_unlock"]
            /\ UNCHANGED <<closeCount, relOrder, resources>>
    /\ UNCHANGED <<newVars, capacity, chClosed, closed, m, arg, held, created, acqGhost,
                   closeGhost>>

\* the deferred p.m.Unlock(); Close returns
CloseUnlock(w) ==
    /\ pc[w] = "cl_unlock"
    /\ m' = NoWorker
    /\ pc' = [pc EXCEPT ![w] = "idle"]
    /\ closeReturned' = TRUE
    /\ marking' = [marking EXCEPT ![w] = FALSE]
    /\ closeDone' = [closeDone EXCEPT ![w] = TRUE]
    /\ UNCHANGED <<newVars, capacity, resources, chClosed, closed, arg, held, created,
                   closeCount, acqGhost, markCount, snap, relOrder>>

\* ------------------------------------------------------ specification
\* the program died of a send on the closed channel
Crashed == \E w \in Workers : pc[w] = "panic"

Next ==
    \E w \in Workers :
         \/ AcquireCall(w)
         \/ AcquireSelect(w)
         \/ AcquireFactory(w)
         \/ ReleaseCall(w)
         \/ ReleaseLock(w)
         \/ ReleaseCheck(w)
         \/ ReleaseSelect(w)
         \/ ReleaseUnlock(w)
         \/ CloseCall(w)
         \/ CloseLock(w)
         \/ CloseCheck(w)
         \/ CloseChan(w)
         \/ CloseDrain(w)
         \/ CloseUnlock(w)

Spec == Init /\ [][Next]_vars

\* Acquire and Release called one after the other on an open pool: a worker
\* takes a step only while no other worker is inside a call
Quiet(w) == \A v \in Workers \ {w} : pc[v] = "idle"

SeqNext ==
    \E w \in Workers :
         \/ Quiet(w) /\ AcquireCall(w)
         \/ Quiet(w) /\ AcquireSelect(w)
         \/ Quiet(w) /\ AcquireFactory(w)
         \/ Quiet(w) /\ ReleaseCall(w)
         \/ Quiet(w) /\ ReleaseLock(w)
         \/ Quiet(w) /\ ReleaseCheck(w)
         \/ Quiet(w) /\ ReleaseSelect(w)
         \/ Quiet(w) /\ ReleaseUnlock(w)

SeqSpec == Init /\ [][SeqNext]_vars

\* a worker's steps inside a call, the mutex acquisitions apart: a goroutine that
\* can run is run
Progress(w) ==
    \/ AcquireSelect(w)
    \/ AcquireFactory(w)
    \/ ReleaseCheck(w)
    \/ ReleaseSelect(w)
    \/ ReleaseUnlock(w)
    \/ CloseCheck(w)
    \/ CloseChan(w)
    \/ CloseDrain(w)
    \/ CloseUnlock(w)

\* a worker's p.m.Lock()
Lock(w) == ReleaseLock(w) \/ CloseLock(w)

\* weak fairness of every worker's steps, Lock included
WeakSpec ==
    Spec /\ \A w \in Workers : WF_vars(Progress(w)) /\ WF_vars(Lock(w))

\* sync.Mutex hands the mutex to a goroutine that has waited for it: a Lock that
\* could succeed again and again does succeed
FairSpec ==
    Spec /\ \A w \in Workers : WF_vars(Progress(w)) /\ SF_vars(Lock(w))

\* the program from the call of New on: the workers use the Pool New returned
NewNext ==
    \/ NewCall
    \/ newRet = "ok" /\ Next

NewSpec == NewInit /\ [][NewNext]_vars

\* ------------------------------------------------------------- claims

\* C1: whatever the interleaving of Acquire, Release and Close, with callers
\* that release only resources they hold, the Pool calls Close on any given
\* resource at most once (overflow discard, post-close discard and drain together).
C1_NoDoubleClose == \A r \in Res : closeCount[r] <= 1

\* two different resources have been closed and a Close has returned
C1_Witness ==
    /\ closeReturned
    /\ \E r1, r2 \in Res : r1 # r2 /\ closeCount[r1] = 1 /\ closeCount[r2] = 1

\* C2: in every reachable state the buffer holds between 0 and capacity resources.
C2_BufferBounded == Len(resources) >= 0 /\ Len(resources) <= capacity

\* the buffer of a pool of capacity 2 is full
C2_Witness == capacity = 2 /\ Len(resources) = capacity

\* C3: a Release that tests p.closed after Close has set it closes its resource
\* at once and leaves the buffer alone; no step adds to the buffer once the
\* channel is closed (so no send on a closed channel panics); and the buffer is
\* empty in every state after a Close has returned.
C3_NoWriteAfterClose ==
    /\ [](~Crashed)
    /\ [](closeReturned => resources = <<>>)
    /\ [][/\ chClosed => Len(resources') <= Len(resources)
          /\ \A w \in Workers :
                (pc[w] = "rel_check" /\ closed /\ pc'[w] # pc[w]) =>
                    /\ resources' = resources
                    /\ pc'[w] = "rel_unlock"
                    /\ closeCount'[arg[w]] = closeCount[arg[w]] + 1]_vars

\* a Release has discarded its resource after a Close returned
C3_Witness ==
    /\ closeReturned
    /\ \E w \in Workers : pc[w] = "rel_unlock" /\ closed
    /\ \E r \in Res : closeCount[r] = 1


\* C4 as stated: once a Close has returned, every resource that was in the
\* buffer when that Close began has been closed exactly once.
C4_DrainClosesAll ==
    \A w \in Workers : closeDone[w] => \A r \in snap[w] : closeCount[r] = 1

\* the callers' resources: held, or passed to a Release that has not decided yet
Owned == UNION {held[w] : w \in Workers} \cup {arg[w] : w \in Workers}

\* C4 (amended): once a Close has returned, the buffer is empty and every
\* resource that was in the buffer when that Close began has either been closed
\* exactly once or was received by an Acquire that ran concurrently and is now
\* a caller's, not yet closed.
C4_DrainedOrHandedOut ==
    \A w \in Workers : closeDone[w] =>
        /\ resources = <<>>
        /\ \A r \in snap[w] :
              closeCount[r] = 1 \/ (closeCount[r] = 0 /\ r \in Owned)

\* a Close that began with two buffered resources has returned: the drain
\* closed one, a concurrent Acquire got the other
C4_Witness ==
    \E w \in Workers :
        /\ closeDone[w]
        /\ \E r1, r2 \in snap[w] :
              /\ closeCount[r1] = 1
              /\ closeCount[r2] = 0
              /\ \E v \in Workers : r2 \in held[v] /\ ret[v] = "buffered"

\* C5: of any number of Close calls exactly one marks the pool closed and
\* drains; a step of any other Close call changes neither p.closed nor the
\* channel and closes no resource.
C5_CloseIdempotent ==
    /\ [](markCount <= 1 /\ (closeReturned => markCount = 1))
    /\ [][\A w \in Workers :
            (/\ pc[w] \in {"cl_lock", "cl_check", "cl_unlock"}
             /\ pc'[w] # pc[w]
             /\ ~marking[w] /\ ~marking'[w]) =>
                UNCHANGED <<closed, chClosed, resources, closeCount>>]_vars

\* a Close call that found the pool already closed is about to return
C5_Witness ==
    \E w \in Workers : pc[w] = "cl_unlock" /\ ~marking[w] /\ markCount = 1

\* C6: Release's select on an open pool whose buffer is full is enabled (it
\* does not wait), calls Close on the released resource, for the first and
\* only time, and leaves the buffer as it was.
C6_OverflowDiscard ==
    /\ [](\A w \in Workers : pc[w] = "rel_select" => ENABLED ReleaseSelect(w))
    /\ [][\A w \in Workers :
            (/\ pc[w] = "rel_select" /\ pc'[w] # pc[w]
             /\ ~closed /\ Len(resources) = capacity) =>
                /\ resources' = resources
                /\ closeCount[arg[w]] = 0
                /\ closeCount'[arg[w]] = 1
                /\ pc'[w] = "rel_unlock"]_vars

\* a Release into a full buffer has discarded its resource
C6_Witness ==
    /\ ~closed
    /\ Len(resources) = capacity
    /\ \E w \in Workers : pc[w] = "rel_unlock"
    /\ \E r \in Res : closeCount[r] = 1 /\ r \notin Range(resources)

EmptyInProgress ==
    {w \in Workers : pc[w] \in {"acq_select", "acq_factory"} /\ callEmpty[w]}

\* C8: with calls made one after the other on an open pool, the factory has
\* been invoked once for each Acquire called while the buffer was empty, and
\* an Acquire called while the buffer was not empty does not invoke it.
C8_FactoryCallsSeq ==
    /\ factoryCalls + Cardinality(EmptyInProgress) = emptyAcquires
    /\ \A w \in Workers :
          /\ pc[w] = "acq_factory" => callEmpty[w]
          /\ ret[w] \in {"created", "factoryErr"} => callEmpty[w]
          /\ ret[w] = "buffered" => ~callEmpty[w]

\* three Acquire calls have returned: two invoked the factory, one reused
C8_Witness ==
    /\ \A w \in Workers : pc[w] = "idle"
    /\ acquireCalls = 3 /\ factoryCalls = 2 /\ emptyAcquires = 2
    /\ \E w \in Workers : ret[w] = "buffered"

\* C9: an Acquire that begins after a Close call has returned returns
\* ErrPoolClosed (and no resource).
C9_AcquireAfterClose ==
    \A w \in Workers :
        (afterClose[w] /\ pc[w] = "idle") => ret[w] = "ErrPoolClosed"

\* an Acquire begun after a Close had returned has returned ErrPoolClosed
C9_Witness ==
    \E w \in Workers : afterClose[w] /\ pc[w] = "idle" /\ ret[w] = "ErrPoolClosed"

\* C10 as stated: an Acquire on a pool whose Close has completed invokes the
\* factory and returns its result.
C10_FallsThroughToFactory ==
    \A w \in Workers :
        (afterClose[w] /\ pc[w] = "idle") => ret[w] \in {"created", "factoryErr"}

\* C10 (amended): an Acquire on a pool whose Close has completed never reaches
\* the factory and returns neither a factory result nor a buffered resource:
\* the receive on the closed, drained channel is ready and yields PoolClosed.
C10_ClosedPoolNoFactory ==
    \A w \in Workers :
        afterClose[w] =>
            /\ pc[w] \in {"acq_select", "idle"}
            /\ ret[w] \notin {"created", "factoryErr", "buffered"}

\* after a Close that drained a resource, a later Acquire has failed with
\* PoolClosed and nothing was created for it
C10_Witness ==
    \E w \in Workers :
        /\ afterClose[w] /\ ret[w] = "ErrPoolClosed"
        /\ created = 1 /\ factoryCalls = 1 /\ closeCount[1] = 1

\* C11: an Acquire returns ErrPoolClosed only from a select that reads the
\* channel after Close has closed it (p.closed is then true); such an Acquire
\* gets no resource and does not invoke the factory; and no Acquire returns
\* ErrPoolClosed while p.closed is false.
C11_PoolClosedOnlyWhenClosed ==
    /\ [](\A w \in Workers : ret[w] = "ErrPoolClosed" => closed /\ chClosed)
    /\ [][\A w \in Workers :
            (ret[w] # "ErrPoolClosed" /\ ret'[w] = "ErrPoolClosed") =>
                /\ pc[w] = "acq_select"
                /\ chClosed /\ closed /\ resources = <<>>
                /\ held' = held
                /\ resources' = resources
                /\ created' = created
                /\ factoryCalls' = factoryCalls]_vars

\* an Acquire that was called before any Close returned got ErrPoolClosed:
\* it read the channel after a concurrent Close had closed it
C11_Witness ==
    \E w \in Workers :
        ret[w] = "ErrPoolClosed" /\ ~afterClose[w] /\ pc[w] = "idle"

\* C12: Acquire never waits.  In every reachable state a worker inside Acquire
\* can take its own next step, whoever holds the mutex and whatever the buffer
\* holds, and an Acquire that has returned did so with a buffered resource,
\* the factory's result, or ErrPoolClosed.
C12_AcquireNeverWaits ==
    \A w \in Workers :
        /\ pc[w] = "acq_select" => ENABLED AcquireSelect(w)
        /\ pc[w] = "acq_factory" => ENABLED AcquireFactory(w)
        /\ (pc[w] = "idle" /\ ret[w] # "none") =>
               ret[w] \in {"buffered", "created", "factoryErr", "ErrPoolClosed"}

\* a worker is at Acquire's select on an empty buffer while another worker
\* holds the mutex
C12_Witness ==
    \E w \in Workers :
        /\ pc[w] = "acq_select"
        /\ resources = <<>>
        /\ m # NoWorker /\ m # w

\* C13: p.closed is false after New, and no step of any operation takes it
\* from true back to false.
C13_ClosedMonotone ==
    /\ ~closed
    /\ [][closed => closed']_vars
    /\ [](closeReturned => closed)

\* the pool is closed and a further Close call is testing the flag
C13_Witness ==
    /\ closed /\ closeReturned
    /\ \E w \in Workers : pc[w] = "cl_check"

\* C14: capacity does not bound the resources alive at once.  An Acquire that
\* found the buffer empty can always obtain a new resource from the factory,
\* however many resources are alive; so with more workers than capacity, each
\* acquiring on an empty buffer, all of them hold a resource at the same time.
C14_AliveNotCapped ==
    \A w \in Workers :
        pc[w] = "acq_factory" =>
            ENABLED (AcquireFactory(w) /\ created' = created + 1)

\* every worker holds a resource it got from the factory, nothing has been
\* released, and the workers outnumber the capacity
C14_Witness ==
    /\ NumWorkers > capacity
    /\ resources = <<>>
    /\ \A w \in Workers : ret[w] = "created" /\ held[w] # {} /\ pc[w] = "idle"
    /\ Cardinality(Alive) > capacity
    /\ Cardinality(UNION {held[w] : w \in Workers}) = NumWorkers

\* C15: the factory call of an Acquire that found the open buffer empty is one
\* invocation; when it fails Acquire returns the factory's own error, hands out
\* nothing and creates nothing; in either case the buffer and the closed flag
\* are left as they were.
C15_FactoryErrorPropagates ==
    [][\A w \in Workers :
          (pc[w] = "acq_factory" /\ pc'[w] # pc[w]) =>
              /\ pc'[w] = "idle"
              /\ factoryCalls' = factoryCalls + 1
              /\ ret'[w] \in {"created", "factoryErr"}
              /\ ret'[w] = "factoryErr" => (held' = held /\ created' = created)
              /\ UNCHANGED <<resources, closed, chClosed, capacity>>]_vars

\* the first Acquire on the open, empty pool has returned the factory's error
C15_Witness ==
    /\ ~closed /\ resources = <<>>
    /\ factoryCalls = 1 /\ created = 0
    /\ \E w \in Workers : pc[w] = "idle" /\ ret[w] = "factoryErr" /\ held[w] = {}

\* C16: New returns an error and no Pool for every size <= 0, and no operation
\* ever runs on a Pool then; for every size > 0 it returns a Pool with an empty
\* buffer of capacity exactly size, not closed, the mutex free.
C16_NewValidatesSize ==
    /\ [](newRet = "err" => size <= 0 /\ PoolIs(NoPool) /\ \A w \in Workers : pc[w] = "idle")
    /\ [](newRet = "ok" => size > 0 /\ capacity = size)
    /\ [][(newRet = "pending" /\ newRet' # "pending") =>
             IF size <= 0
             THEN newRet' = "err" /\ UNCHANGED poolVars
             ELSE /\ newRet' = "ok"
                  /\ resources' = <<>>
                  /\ capacity' = size
                  /\ ~closed' /\ ~chClosed'
                  /\ m' = NoWorker]_vars

\* New(fn, 0) has failed
C16_Witness == size = 0 /\ newRet = "err"

\* C17: Close sets p.closed, then closes the channel, and only then drains:
\* the channel is closed only once p.closed is true, a Close that is about to
\* close the channel has set p.closed, a Close in its drain loop has closed the
\* channel, and Close calls r.Close() on no resource while the channel is open.
C17_CloseOrdered ==
    /\ [](chClosed => closed)
    /\ [](\A w \in Workers :
            /\ pc[w] = "cl_chan" => closed /\ ~chClosed /\ m = w
            /\ pc[w] = "cl_drain" => closed /\ chClosed /\ m = w)
    /\ [][/\ (~chClosed /\ chClosed') => closed
          /\ \A w \in Workers :
                (/\ m = w
                 /\ pc[w] \in {"cl_check", "cl_chan", "cl_drain"}
                 /\ closeCount' # closeCount) => chClosed /\ closed]_vars

\* a Close is in the middle of its drain: one resource closed, one still buffered
C17_Witness ==
    \E w \in Workers :
        /\ pc[w] = "cl_drain" /\ chClosed
        /\ resources # <<>>
        /\ \E r \in Res : closeCount[r] = 1

\* C18: every call a worker has started returns (Acquire, Release and Close;
\* in particular Close's drain loop ends), and only a worker inside the critical
\* section of Release or Close holds the mutex: it is given back on every path.
C18_EveryCallReturns ==
    /\ [](\A w \in Workers : m = w =>
            pc[w] \in {"rel_check", "rel_select", "rel_unlock",
                       "cl_check", "cl_chan", "cl_drain", "cl_unlock"})
    /\ \A w \in Workers : (pc[w] # "idle") ~> (pc[w] = "idle")

\* a Release waits for the mutex while a Close that holds it drains the buffer
C18_Witness ==
    \E w, v \in Workers :
        pc[w] = "rel_lock" /\ pc[v] = "cl_drain" /\ m = v /\ resources # <<>>

\* in how many places a resource is: callers holding it, buffer slots, Release
\* calls that were passed it and have not decided, and Close calls made on it
Places(r) ==
    Cardinality({w \in Workers : r \in held[w]})
    + Cardinality({i \in 1..Len(resources) : resources[i] = r})
    + Cardinality({w \in Workers : arg[w] = r})
    + closeCount[r]

\* C19: with callers that release only what they hold, every resource the
\* factory has made is in exactly one place: held by one caller, in one buffer
\* slot, inside one Release call, or closed.  So no two callers hold the same
\* resource, the buffer holds none twice, and no caller holds a resource the
\* Pool has closed.
C19_ExclusiveOwnership ==
    /\ \A r \in 1..created : Places(r) = 1
    /\ \A r \in Res \ (1..created) : Places(r) = 0
    /\ \A w \in Workers : \A r \in held[w] :
          /\ closeCount[r] = 0
          /\ r \notin Range(resources)
          /\ \A v \in Workers \ {w} : r \notin held[v]

\* three resources in three kinds of places: one passed to a Release that has
\* not decided yet, one buffered, one closed
C19_Witness ==
    \E r1, r2, r3 \in 1..created :
        /\ \E w \in Workers : arg[w] = r1 /\ pc[w] = "rel_select"
        /\ r2 \in Range(resources)
        /\ closeCount[r3] = 1

\* C20: if Close is called at some point and every caller ends up holding
\* nothing (it has passed each resource it acquired to Release), then from some
\* point on every resource the factory has made has been closed by the Pool.
C20_NoLeak ==
    (/\ <>(\E w \in Workers : pc[w] = "cl_lock")
     /\ \A w \in Workers : <>[](held[w] = {}))
        => <>[](\A r \in 1..created : closeCount[r] = 1)

\* after Close, a Release has just discarded the last open resource: all that
\* the factory made, two or more, are closed
C20_Witness ==
    /\ closed /\ closeReturned
    /\ created >= 2
    /\ \A r \in 1..created : closeCount[r] = 1
    /\ \E w \in Workers : pc[w] = "rel_unlock"
====
